---- MODULE Spec2Model ----
(***************************************************************************)
(* Model of lib/helpers/unlock.ts: the unlock-capability validator, the    *)
(* fast-unlock path, the PIN strategy executors with the unlock-completion *)
(* wait, and the pattern geometry engine.                                  *)
(*                                                                         *)
(* The device-control channel (adb) and the UI-interaction layer (driver)  *)
(* are external: every call to them is logged in `calls` with the outcome  *)
(* the environment chose for it (a return value, or a rejection).          *)
(***************************************************************************)
EXTENDS Integers, Sequences, FiniteSets, TLC

VARIABLES
    calls,          \* log of the adb / driver calls made so far, in order
    outcome,        \* "running" | "returned" | "threw": the async function's promise
    thrown,         \* the error the function failed with (NoError while none)
    \* ---- fastUnlock
    opts,           \* FastUnlockOptions {credential, credentialType}
    fuPc,           \* the await fastUnlock is suspended at
    wasLockEnabled, \* const wasLockEnabled (FALSE until assigned)
    pendingErr,     \* the error of the try block while the finally block runs
    \* ---- strategy executors (pinUnlock, pinUnlockWithKeyEvent, waitForUnlock)
    unlockKey,      \* capabilities.unlockKey, a string (sequence of characters)
    apiLevel,       \* the device's API level, what adb.getApiLevel() resolves to
    strategy,       \* the executor the caller invoked
    stack,          \* the executors entered and not yet left, outermost first
    exPc,           \* the await the innermost executor is suspended at
    keys,           \* const keys = this.stringKeyToArr(...)
    els,            \* const els (API >= 21) / const el (API < 21, a 1-element list)
    pins,           \* const pins: StringRecord, text -> element
    idx,            \* position of the running for-of loop in els or keys
    waitRuns,       \* number of times waitForUnlock has been entered
    location,       \* patternUnlock: const initPos = await driver.getLocation(...)
    size,           \* patternUnlock: const size = await driver.getSize(...)
    \* ---- validateUnlockCapabilities
    caps,           \* the capabilities passed in: {unlockType, unlockKey}
    valOutcome,     \* what the call did: pending, returned a value, or threw
    \* ---- getPatternActions / getPatternKeyPosition
    patternKeys,    \* the keys argument, as passed (digit strings)
    initPos,        \* the initPos argument
    piece,          \* the piece argument (the cell size)
    gPc,            \* "loop" | "release" | "done"
    gi,             \* position of the for-of loop in keys
    actions,        \* const actions: TouchAction[]
    lastPos,        \* let lastPos: Position
    keyPos          \* const keyPos of the iteration last run

fastVars == <<opts, fuPc, wasLockEnabled, pendingErr>>
execVars == <<unlockKey, apiLevel, strategy, stack, exPc, keys, els, pins, idx, waitRuns,
              location, size>>
valVars == <<caps, valOutcome>>
geoVars == <<patternKeys, initPos, piece, gPc, gi, actions, lastPos, keyPos>>
vars == <<calls, outcome, thrown, fastVars, execVars, valVars, geoVars>>

----------------------------------------------------------------------------
(* Errors.  An error raised by a collaborator is identified by the position *)
(* in `calls` of the call that rejected.                                    *)
NoError == [kind |-> "none", at |-> 0]
CallError(n) == [kind |-> "call", at |-> n]

(* One logged call: the function, its arguments, whether it resolved, and   *)
(* the value it resolved to ("" when it carries none).                      *)
Call(fn, args, ok, ret) == [fn |-> fn, args |-> args, ok |-> ok, ret |-> ret]

(* The promise of the running async function rejects with the error of the  *)
(* call just appended to the log.                                           *)
Reject(log) ==
    /\ outcome' = "threw"
    /\ thrown' = CallError(Len(log))

----------------------------------------------------------------------------
(* fastUnlock                                                               *)

CredentialTypes == {"pin", "password", "pattern"}
Credentials == {"1234", "0000", "secret"}

(* try { dismissKeyguard } finally { if (wasLockEnabled) setLockCredential }:*)
(* where control goes once dismissKeyguard has settled, whether it resolved  *)
(* (ok) or rejected.                                                         *)
AfterDismissAlwaysRestore(ok, wasLock) == "setLockCredential"

AfterDismissNoFinally(ok, wasLock) ==
    IF ok /\ wasLock THEN "setLockCredential" ELSE "settle"

AfterDismiss(ok, wasLock) ==
    IF wasLock THEN "setLockCredential" ELSE "settle"

(* Completion of the try statement: an abrupt completion of the finally      *)
(* block (finallyErr) replaces the completion of the try block (tryErr).     *)
TryFinallyCompletion(tryErr, finallyErr) ==
    IF finallyErr # NoError THEN finallyErr ELSE tryErr

Settle(err) ==
    /\ outcome' = (IF err = NoError THEN "returned" ELSE "threw")
    /\ thrown' = err

FU_IsLockEnabled ==
    /\ outcome = "running" /\ fuPc = "isLockEnabled"
    /\ \E r \in {"true", "false", "throw"} :
         LET log == Append(calls, Call("isLockEnabled", <<>>, r # "throw", r)) IN
         /\ calls' = log
         /\ IF r = "throw"
              THEN /\ Reject(log)
                   /\ fuPc' = "done"
                   /\ UNCHANGED wasLockEnabled
              ELSE /\ wasLockEnabled' = (r = "true")
                   /\ fuPc' = (IF r = "true" THEN "clearLockCredential"
                                             ELSE "dismissKeyguard")
                   /\ UNCHANGED <<outcome, thrown>>
    /\ UNCHANGED <<opts, pendingErr, execVars, valVars, geoVars>>

FU_ClearLockCredential ==
    /\ outcome = "running" /\ fuPc = "clearLockCredential"
    /\ \E ok \in BOOLEAN :
         LET log == Append(calls, Call("clearLockCredential", <<opts.credential>>, ok, "")) IN
         /\ calls' = log
         /\ IF ok THEN /\ fuPc' = "cycleWakeUp"
                       /\ UNCHANGED <<outcome, thrown>>
                  ELSE /\ Reject(log)
                       /\ fuPc' = "done"
    /\ UNCHANGED <<opts, wasLockEnabled, pendingErr, execVars, valVars, geoVars>>

FU_CycleWakeUp ==
    /\ outcome = "running" /\ fuPc = "cycleWakeUp"
    /\ \E ok \in BOOLEAN :
         LET log == Append(calls, Call("cycleWakeUp", <<>>, ok, "")) IN
         /\ calls' = log
         /\ IF ok THEN /\ fuPc' = "dismissKeyguard"
                       /\ UNCHANGED <<outcome, thrown>>
                  ELSE /\ Reject(log)
                       /\ fuPc' = "done"
    /\ UNCHANGED <<opts, wasLockEnabled, pendingErr, execVars, valVars, geoVars>>

FU_DismissKeyguard ==
    /\ outcome = "running" /\ fuPc = "dismissKeyguard"
    /\ \E ok \in BOOLEAN :
         LET log == Append(calls, Call("dismissKeyguard", <<>>, ok, ""))
             err == IF ok THEN NoError ELSE CallError(Len(log))
             nxt == AfterDismiss(ok, wasLockEnabled)
         IN
         /\ calls' = log
         /\ IF nxt = "setLockCredential"
              THEN /\ pendingErr' = err
                   /\ fuPc' = "setLockCredential"
                   /\ UNCHANGED <<outcome, thrown>>
              ELSE /\ Settle(err)
                   /\ fuPc' = "done"
                   /\ UNCHANGED pendingErr
    /\ UNCHANGED <<opts, wasLockEnabled, execVars, valVars, geoVars>>

FU_SetLockCredential ==
    /\ outcome = "running" /\ fuPc = "setLockCredential"
    /\ \E ok \in BOOLEAN :
         LET log == Append(calls, Call("setLockCredential",
                                       <<opts.credentialType, opts.credential>>, ok, ""))
             err == IF ok THEN NoError ELSE CallError(Len(log))
         IN
         /\ calls' = log
         /\ Settle(TryFinallyCompletion(pendingErr, err))
         /\ fuPc' = "done"
    /\ UNCHANGED <<opts, wasLockEnabled, pendingErr, execVars, valVars, geoVars>>

----------------------------------------------------------------------------
(* Strings are sequences of one-character strings.                          *)

Whitespace == {" ", "\t", "\n"}
Digits09 == {"0", "1", "2", "3", "4", "5", "6", "7", "8", "9"}
Digits19 == Digits09 \ {"0"}

(* String.prototype.trim / _.trim: drop leading and trailing whitespace.     *)
RECURSIVE TrimStart(_)
TrimStart(s) ==
    IF s # <<>> /\ Head(s) \in Whitespace THEN TrimStart(Tail(s)) ELSE s

RECURSIVE TrimEnd(_)
TrimEnd(s) ==
    IF s # <<>> /\ s[Len(s)] \in Whitespace
      THEN TrimEnd(SubSeq(s, 1, Len(s) - 1))
      ELSE s

Trim(s) == TrimEnd(TrimStart(s))

NotWhitespace(c) == c \notin Whitespace

(* `${key}`.trim().replace(/\s+/g, '').split(/\s*/): every whitespace run is *)
(* removed, then the string is split between every two characters; the      *)
(* array of one-character strings is the sequence of the characters left.   *)
stringKeyToArr(key) == SelectSeq(Trim(key), NotWhitespace)

(* parseInt(pin, 10) for a one-character string: NaN (-1 here) if no digit.  *)
ParseInt(c) ==
    CASE c = "0" -> 0 [] c = "1" -> 1 [] c = "2" -> 2 [] c = "3" -> 3
      [] c = "4" -> 4 [] c = "5" -> 5 [] c = "6" -> 6 [] c = "7" -> 7
      [] c = "8" -> 8 [] c = "9" -> 9 [] OTHER -> -1

KEYCODE_NUMPAD_ENTER == 66
NUMBER_ZERO_KEYCODE == 7

----------------------------------------------------------------------------
(* Strategy executors: pinUnlock, pinUnlockWithKeyEvent, waitForUnlock       *)

MaxPinLen == 3

(* The digits the PIN keys of the model are made of. *)
PinDigits == {"0", "1", "9"}

RECURSIVE SeqsUpTo(_, _)
SeqsUpTo(S, n) ==
    IF n = 0 THEN {<<>>}
    ELSE LET shorter == SeqsUpTo(S, n - 1) IN
         shorter \cup {Append(q, c) : q \in shorter, c \in S}

(* Validated PIN keys: digits, possibly surrounded by whitespace. *)
PinKeys ==
    LET bare == SeqsUpTo(PinDigits, MaxPinLen) \ {<<>>} IN
    bare \cup {<<" ">> \o k \o <<" ">> : k \in bare}

ApiLevels == {19, 21, 23}

(* A UI element as the driver returns it, with the text it displays;        *)
(* util.unwrapElement(el) is its id, and that of `undefined` is undefined.   *)
Element(text) == [id |-> <<"element", text>>, text |-> text]
UndefinedEl == [id |-> <<"undefined">>, text |-> ""]
unwrapElement(el) == el.id

(* What findElOrEls('id', 'com.android.systemui:id/digit_text', true) may    *)
(* resolve to: no element, the whole keypad, or a keypad lacking digits.     *)
ElsResults ==
    { <<>>,
      <<Element("0"), Element("1"), Element("9")>>,
      <<Element("1")>> }

Top(st) == st[Len(st)]

(* `return await this.pinUnlockWithKeyEvent(...)`: what pinUnlock does once  *)
(* the fallback it awaited has resolved.                                     *)
AfterFallbackFallThrough == "waitForUnlock"

AfterFallback == "return"

(* const el = pins[pin]: the element mapped to the digit, if any. *)
LookupPin(map, pin) == IF pin \in DOMAIN map THEN map[pin] ELSE UndefinedEl

(* if (_.isEmpty(els)) / if (el === null): the fallback condition.           *)
NeedsFallbackAlways(found) == TRUE

NeedsFallback(found) == found = <<>>

(* The rejected call ends the executor (and its caller, which awaits it).    *)
ExecFailSwallowed(log) ==
    /\ calls' = log
    /\ outcome' = "returned"
    /\ thrown' = NoError
    /\ exPc' = "done"
    /\ UNCHANGED <<stack, keys, els, pins, idx, waitRuns>>

ExecFail(log) ==
    /\ calls' = log
    /\ Reject(log)
    /\ exPc' = "done"
    /\ UNCHANGED <<stack, keys, els, pins, idx, waitRuns>>

EnterWait ==
    /\ exPc' = "isScreenLocked"
    /\ waitRuns' = waitRuns + 1

(* pinUnlockWithKeyEvent is entered from pinUnlock. *)
EnterFallback ==
    /\ stack' = Append(stack, "pinUnlockWithKeyEvent")
    /\ exPc' = "dismissKeyguard"

(* waitForUnlock has returned: the innermost executor returns, and so does   *)
(* pinUnlock when it awaited it as its fallback.                             *)
LeaveWait ==
    IF Len(stack) > 1 /\ AfterFallback = "waitForUnlock"
      THEN /\ stack' = SubSeq(stack, 1, Len(stack) - 1)
           /\ EnterWait
           /\ UNCHANGED <<outcome, thrown>>
      ELSE /\ stack' = <<>>
           /\ exPc' = "done"
           /\ Settle(NoError)
           /\ UNCHANGED waitRuns

(* pinUnlock: await adb.dismissKeyguard(); const keys = stringKeyToArr(...)  *)
P_DismissKeyguard ==
    /\ outcome = "running" /\ stack # <<>> /\ Top(stack) = "pinUnlock"
    /\ exPc = "dismissKeyguard"
    /\ \E ok \in BOOLEAN :
         LET log == Append(calls, Call("dismissKeyguard", <<>>, ok, "")) IN
         IF ok
           THEN /\ calls' = log
                /\ keys' = stringKeyToArr(unlockKey)
                /\ exPc' = "getApiLevel"
                /\ UNCHANGED <<outcome, thrown, stack, els, pins, idx, waitRuns>>
           ELSE ExecFail(log)
    /\ UNCHANGED <<unlockKey, apiLevel, strategy, location, size, fastVars, valVars, geoVars>>

(* pinUnlock: if ((await adb.getApiLevel()) >= 21) *)
P_GetApiLevel ==
    /\ outcome = "running" /\ stack # <<>> /\ Top(stack) = "pinUnlock"
    /\ exPc = "getApiLevel"
    /\ \E ok \in BOOLEAN :
         LET log == Append(calls, Call("getApiLevel", <<>>, ok,
                                       IF ok THEN ToString(apiLevel) ELSE "")) IN
         IF ok
           THEN /\ calls' = log
                /\ IF apiLevel >= 21
                     THEN /\ exPc' = "findEls"
                          /\ UNCHANGED <<idx, waitRuns>>
                     ELSE IF keys = <<>>
                       THEN EnterWait /\ UNCHANGED idx
                       ELSE /\ exPc' = "findKey"
                            /\ idx' = 1
                            /\ UNCHANGED waitRuns
                /\ UNCHANGED <<outcome, thrown, stack, keys, els, pins>>
           ELSE ExecFail(log)
    /\ UNCHANGED <<unlockKey, apiLevel, strategy, location, size, fastVars, valVars, geoVars>>

(* pinUnlock, API >= 21: const els = await driver.findElOrEls(..., true);    *)
(* if (_.isEmpty(els)) return await this.pinUnlockWithKeyEvent(...)          *)
P_FindEls ==
    /\ outcome = "running" /\ stack # <<>> /\ Top(stack) = "pinUnlock"
    /\ exPc = "findEls"
    /\ \/ \E found \in ElsResults :
            LET log == Append(calls, Call("findElOrEls", <<"digit_text", "true">>,
                                          TRUE, found)) IN
            /\ calls' = log
            /\ els' = found
            /\ pins' = <<>>
            /\ IF NeedsFallback(found)
                 THEN EnterFallback /\ UNCHANGED idx
                 ELSE /\ exPc' = "getAttribute"
                      /\ idx' = 1
                      /\ UNCHANGED stack
            /\ UNCHANGED <<outcome, thrown, keys, waitRuns>>
       \/ ExecFail(Append(calls, Call("findElOrEls", <<"digit_text", "true">>,
                                      FALSE, <<>>)))
    /\ UNCHANGED <<unlockKey, apiLevel, strategy, location, size, fastVars, valVars, geoVars>>

(* pinUnlock, API >= 21: for (const el of els) {                             *)
(*   const text = await driver.getAttribute('text', unwrapElement(el));      *)
(*   pins[text] = el; }                                                      *)
P_GetAttribute ==
    /\ outcome = "running" /\ stack # <<>> /\ Top(stack) = "pinUnlock"
    /\ exPc = "getAttribute"
    /\ \E ok \in BOOLEAN :
         LET el == els[idx]
             text == el.text
             log == Append(calls, Call("getAttribute", <<"text", unwrapElement(el)>>,
                                       ok, IF ok THEN text ELSE ""))
         IN
         IF ok
           THEN /\ calls' = log
                /\ pins' = [t \in DOMAIN pins \cup {text} |->
                              IF t = text THEN el ELSE pins[t]]
                /\ IF idx < Len(els)
                     THEN /\ idx' = idx + 1
                          /\ UNCHANGED <<exPc, waitRuns>>
                     ELSE IF keys = <<>>
                       THEN EnterWait /\ UNCHANGED idx
                       ELSE /\ exPc' = "click"
                            /\ idx' = 1
                            /\ UNCHANGED waitRuns
                /\ UNCHANGED <<outcome, thrown, stack, keys, els>>
           ELSE ExecFail(log)
    /\ UNCHANGED <<unlockKey, apiLevel, strategy, location, size, fastVars, valVars, geoVars>>

(* pinUnlock, API >= 21: for (const pin of keys) {                           *)
(*   const el = pins[pin]; await driver.click(unwrapElement(el)); }          *)
P_Click ==
    /\ outcome = "running" /\ stack # <<>> /\ Top(stack) = "pinUnlock"
    /\ exPc = "click"
    /\ \E ok \in BOOLEAN :
         LET el == LookupPin(pins, keys[idx])
             log == Append(calls, Call("click", <<unwrapElement(el)>>, ok, ""))
         IN
         IF ok
           THEN /\ calls' = log
                /\ IF idx < Len(keys)
                     THEN /\ idx' = idx + 1
                          /\ UNCHANGED <<exPc, waitRuns>>
                     ELSE EnterWait /\ UNCHANGED idx
                /\ UNCHANGED <<outcome, thrown, stack, keys, els, pins>>
           ELSE ExecFail(log)
    /\ UNCHANGED <<unlockKey, apiLevel, strategy, location, size, fastVars, valVars, geoVars>>

(* pinUnlock, API < 21: const el = await driver.findElOrEls('id',            *)
(*   `com.android.keyguard:id/key${pin}`, false);                            *)
(* if (el === null) return await this.pinUnlockWithKeyEvent(...)             *)
P_FindKey ==
    /\ outcome = "running" /\ stack # <<>> /\ Top(stack) = "pinUnlock"
    /\ exPc = "findKey"
    /\ \/ \E found \in {<<>>, <<Element(keys[idx])>>} :
            LET log == Append(calls, Call("findElOrEls", <<"key", keys[idx], "false">>,
                                          TRUE, found)) IN
            /\ calls' = log
            /\ els' = found
            /\ IF NeedsFallback(found)
                 THEN EnterFallback
                 ELSE /\ exPc' = "clickKey"
                      /\ UNCHANGED stack
            /\ UNCHANGED <<outcome, thrown, keys, pins, idx, waitRuns>>
       \/ ExecFail(Append(calls, Call("findElOrEls", <<"key", keys[idx], "false">>,
                                      FALSE, <<>>)))
    /\ UNCHANGED <<unlockKey, apiLevel, strategy, location, size, fastVars, valVars, geoVars>>

(* pinUnlock, API < 21: await driver.click(util.unwrapElement(el)) *)
P_ClickKey ==
    /\ outcome = "running" /\ stack # <<>> /\ Top(stack) = "pinUnlock"
    /\ exPc = "clickKey"
    /\ \E ok \in BOOLEAN :
         LET log == Append(calls, Call("click", <<unwrapElement(els[1])>>, ok, "")) IN
         IF ok
           THEN /\ calls' = log
                /\ IF idx < Len(keys)
                     THEN /\ idx' = idx + 1
                          /\ exPc' = "findKey"
                          /\ UNCHANGED waitRuns
                     ELSE EnterWait /\ UNCHANGED idx
                /\ UNCHANGED <<outcome, thrown, stack, keys, els, pins>>
           ELSE ExecFail(log)
    /\ UNCHANGED <<unlockKey, apiLevel, strategy, location, size, fastVars, valVars, geoVars>>

(* pinUnlockWithKeyEvent: await adb.dismissKeyguard(); const keys = ...      *)
K_DismissKeyguard ==
    /\ outcome = "running" /\ stack # <<>> /\ Top(stack) = "pinUnlockWithKeyEvent"
    /\ exPc = "dismissKeyguard"
    /\ \E ok \in BOOLEAN :
         LET log == Append(calls, Call("dismissKeyguard", <<>>, ok, "")) IN
         IF ok
           THEN /\ calls' = log
                /\ keys' = stringKeyToArr(unlockKey)
                /\ IF stringKeyToArr(unlockKey) = <<>>
                     THEN EnterWait /\ UNCHANGED idx
                     ELSE /\ exPc' = "shell"
                          /\ idx' = 1
                          /\ UNCHANGED waitRuns
                /\ UNCHANGED <<outcome, thrown, stack, els, pins>>
           ELSE ExecFail(log)
    /\ UNCHANGED <<unlockKey, apiLevel, strategy, location, size, fastVars, valVars, geoVars>>

(* The key event code sent for a digit: parseInt(pin, 10) + NUMBER_ZERO_KEYCODE *)
KeycodeOfNoOffset(pin) == ParseInt(pin)

KeycodeOf(pin) == ParseInt(pin) + NUMBER_ZERO_KEYCODE

(* pinUnlockWithKeyEvent: for (const pin of keys) {                          *)
(*   await adb.shell(['input', 'keyevent', String(parseInt(pin, 10) + 7)]) } *)
K_Shell ==
    /\ outcome = "running" /\ stack # <<>> /\ Top(stack) = "pinUnlockWithKeyEvent"
    /\ exPc = "shell"
    /\ \E ok \in BOOLEAN :
         LET log == Append(calls, Call("shell",
                       <<"input", "keyevent", ToString(KeycodeOf(keys[idx]))>>, ok, "")) IN
         IF ok
           THEN /\ calls' = log
                /\ IF idx < Len(keys)
                     THEN /\ idx' = idx + 1
                          /\ UNCHANGED <<exPc, waitRuns>>
                     ELSE EnterWait /\ UNCHANGED idx
                /\ UNCHANGED <<outcome, thrown, stack, keys, els, pins>>
           ELSE ExecFail(log)
    /\ UNCHANGED <<unlockKey, apiLevel, strategy, location, size, fastVars, valVars, geoVars>>

(* waitForUnlock: await sleep(UNLOCK_WAIT_TIME);                             *)
(* if (!(await adb.isScreenLocked())) return;                                *)
W_IsScreenLocked ==
    /\ outcome = "running" /\ stack # <<>>
    /\ exPc = "isScreenLocked"
    /\ \E r \in {"true", "false", "throw"} :
         LET log == Append(calls, Call("isScreenLocked", <<>>, r # "throw", r)) IN
         CASE r = "throw" -> ExecFail(log)
           [] r = "false" -> /\ calls' = log
                             /\ LeaveWait
                             /\ UNCHANGED <<keys, els, pins, idx>>
           [] r = "true"  -> /\ calls' = log
                             /\ exPc' = "keyevent"
                             /\ UNCHANGED <<outcome, thrown, stack, keys, els, pins,
                                            idx, waitRuns>>
    /\ UNCHANGED <<unlockKey, apiLevel, strategy, location, size, fastVars, valVars, geoVars>>

(* What waitForUnlock does after the confirm key event and the second sleep: *)
(* it returns, without querying the lock state again.                        *)
AfterConfirmRequery == "isScreenLocked"

AfterConfirm == "return"

(* waitForUnlock: await adb.keyevent(KEYCODE_NUMPAD_ENTER);                  *)
(* await sleep(UNLOCK_WAIT_TIME);                                            *)
W_Keyevent ==
    /\ outcome = "running" /\ stack # <<>>
    /\ exPc = "keyevent"
    /\ \E ok \in BOOLEAN :
         LET log == Append(calls, Call("keyevent", <<ToString(KEYCODE_NUMPAD_ENTER)>>,
                                       ok, "")) IN
         IF ok
           THEN /\ calls' = log
                /\ IF AfterConfirm = "return"
                     THEN LeaveWait
                     ELSE /\ exPc' = AfterConfirm
                          /\ UNCHANGED <<outcome, thrown, stack, waitRuns>>
                /\ UNCHANGED <<keys, els, pins, idx>>
           ELSE ExecFail(log)
    /\ UNCHANGED <<unlockKey, apiLevel, strategy, location, size, fastVars, valVars, geoVars>>

----------------------------------------------------------------------------
(* validateUnlockCapabilities                                               *)

(* JavaScript values of the capabilities: a string, a number, undefined.     *)
(* unlockType strings are written whole; unlockKey strings are sequences of  *)
(* characters.                                                               *)
Undefined == [kind |-> "undefined", val |-> <<>>]
Str(s) == [kind |-> "string", val |-> s]
Num(s) == [kind |-> "number", val |-> s]

PIN_UNLOCK == "pin"
PIN_UNLOCK_KEY_EVENT == "pinWithKeyEvent"
PASSWORD_UNLOCK == "password"
PATTERN_UNLOCK == "pattern"
FINGERPRINT_UNLOCK == "fingerprint"

(* typeof value === 'string' && value !== '' *)
isNonEmptyString(value) == value.kind = "string" /\ value.val # ""

(* _.trim(value): '' for undefined, else the string without the whitespace   *)
(* at its ends.                                                              *)
LodashTrim(value) == IF value.kind = "undefined" THEN <<>> ELSE Trim(value.val)

(* String(value): 'undefined' for undefined. *)
JsString(value) ==
    IF value.kind = "undefined"
      THEN <<"u", "n", "d", "e", "f", "i", "n", "e", "d">>
      ELSE value.val

(* The characters `.` does not match (no s flag). *)
LineTerminators == {"\n"}

(* /^[0-9]+$/.test(s) *)
TestDigitsUnanchored(s) == \E i \in DOMAIN s : s[i] \in Digits09

TestDigits(s) == s # <<>> /\ \A i \in DOMAIN s : s[i] \in Digits09

(* /^[1-9]{2,9}$/.test(s) *)
TestPatternShape(s) ==
    /\ 2 <= Len(s) /\ Len(s) <= 9
    /\ \A i \in DOMAIN s : s[i] \in Digits19

(* /([1-9]).*?\1/.test(s): a digit 1..9 that occurs again later, with no     *)
(* line terminator in between.                                               *)
TestRepeatAdjacent(s) ==
    \E i \in DOMAIN s : i < Len(s) /\ s[i] \in Digits19 /\ s[i + 1] = s[i]

TestRepeat(s) ==
    \E i, j \in DOMAIN s :
        /\ i < j
        /\ s[i] \in Digits19
        /\ s[j] = s[i]
        /\ \A k \in (i + 1)..(j - 1) : s[k] \notin LineTerminators

(* /.{4,}/g.test(s): four characters in a row, none a line terminator.       *)
TestMinLength(s) ==
    \E i \in DOMAIN s :
        /\ i + 3 <= Len(s)
        /\ \A k \in i..(i + 3) : s[k] \notin LineTerminators

Returned(value) == [status |-> "returned", value |-> value, message |-> ""]
Threw(message) == [status |-> "threw", value |-> Undefined, message |-> message]

validateUnlockCapabilities(c) ==
    LET key == c.unlockKey
        unlockType == c.unlockType
    IN
    IF ~isNonEmptyString(unlockType)
      THEN Threw("A non-empty unlock key value must be provided")
    ELSE IF unlockType.val \in {PIN_UNLOCK, PIN_UNLOCK_KEY_EVENT, FINGERPRINT_UNLOCK}
      THEN IF ~TestDigits(LodashTrim(key))
             THEN Threw("must only consist of digits")
             ELSE Returned(c)
    ELSE IF unlockType.val = PATTERN_UNLOCK
      THEN IF ~TestPatternShape(LodashTrim(key))
             THEN Threw("must only include from two to nine digits in range 1..9")
           ELSE IF TestRepeat(LodashTrim(key))
             THEN Threw("must define a valid pattern where repeats are not allowed")
             ELSE Returned(c)
    ELSE IF unlockType.val = PASSWORD_UNLOCK
      THEN IF ~TestMinLength(JsString(key))
             THEN Threw("The minimum allowed length is 4 characters")
             ELSE Returned(c)
    ELSE Threw("Invalid unlock type")

MaxKeyLen == 4

(* The characters the keys of the model are made of: digits, a digit        *)
(* outside 1..9, a letter, a blank and a line feed.                         *)
KeyChars == {"0", "1", "2", "a", " ", "\n"}

(* Keys longer than MaxKeyLen: whole patterns and keys that are too long.   *)
LongKeys ==
    { <<"1", "2", "3", "4", "5", "6", "7", "8", "9">>,
      <<"9", "8", "7", "6", "5", "4", "3", "2", "1">>,
      <<"1", "2", "3", "4", "5", "6", "7", "8", "1">>,
      <<" ", "1", "2", "3", "4", "5", "6", "7", "8", "9", " ">>,
      <<"1", "2", "3", "4", "5", "6", "7", "8", "9", "1">>,
      <<"1", "2", "3", "4", "5", "6", "7", "8", "9", "0">>,
      <<"1", "2", "3", "4", "5", "6", "7", "8", "9", "1", "2">>,
      <<"0", "1", "2", "3", "4", "5", "6", "7", "8", "9">> }

UnlockKeys ==
    {Undefined} \cup {Str(k) : k \in SeqsUpTo(KeyChars, MaxKeyLen) \cup LongKeys}

UnlockTypes ==
    { Undefined, Num("1"), Str(""),
      Str(PIN_UNLOCK), Str(PIN_UNLOCK_KEY_EVENT), Str(PASSWORD_UNLOCK),
      Str(PATTERN_UNLOCK), Str(FINGERPRINT_UNLOCK),
      Str("PIN"), Str("swipe") }

Pending == [status |-> "pending", value |-> Undefined, message |-> ""]

Validate ==
    /\ valOutcome = Pending
    /\ valOutcome' = validateUnlockCapabilities(caps)
    /\ UNCHANGED <<caps, calls, outcome, thrown, fastVars, execVars, geoVars>>

----------------------------------------------------------------------------
(* getPatternKeyPosition, getPatternActions                                  *)

MaxPatternLen == 3
MaxPiece == 2

Abs(n) == IF n < 0 THEN -n ELSE n

(* Math.round of the number whose double is v2: the nearest integer, a half  *)
(* going up.                                                                 *)
MathRound2(v2) == (v2 + 1) \div 2

(* Math.ceil(a / b) for b > 0 *)
CeilDiv(a, b) == -((-a) \div b)

(* (a % b || b) for a >= 0 *)
ModOrNoWrap(a, b) == a % b

ModOr(a, b) == IF a % b = 0 THEN b ELSE a % b

(* xPos = Math.round(x + (key % cols || cols) * piece - piece / 2)           *)
(* yPos = Math.round(y + (Math.ceil((key % pins || pins) / cols) * piece     *)
(*                        - piece / 2))                                      *)
getPatternKeyPositionNoWrap(key, init, pc) ==
    LET cols == 3
        pinsN == 9
    IN [x |-> MathRound2(2 * init.x + 2 * (key % cols) * pc - pc),
        y |-> MathRound2(2 * init.y + 2 * CeilDiv(key % pinsN, cols) * pc - pc)]

getPatternKeyPosition(key, init, pc) ==
    LET cols == 3
        pinsN == 9
    IN [x |-> MathRound2(2 * init.x + 2 * ModOr(key, cols) * pc - pc),
        y |-> MathRound2(2 * init.y + 2 * CeilDiv(ModOr(key, pinsN), cols) * pc - pc)]

(* keys.map((key) => (_.isString(key) ? _.parseInt(key) : key)) *)
KeysAsNumbers(ks) == [i \in DOMAIN ks |-> ParseInt(ks[i])]

(* moveTo.x / moveTo.y: one piece towards the key, two when the key is more  *)
(* than a piece away, nothing when it is on the same column / row.           *)
AxisOffsetSingleStep(diff, pc) ==
    IF diff > 0 THEN pc ELSE IF diff < 0 THEN -1 * pc ELSE 0

AxisOffsetGreaterOrEqual(diff, pc) ==
    IF diff > 0 THEN pc + (IF Abs(diff) >= pc THEN pc ELSE 0)
    ELSE IF diff < 0 THEN -1 * pc - (IF Abs(diff) >= pc THEN pc ELSE 0)
    ELSE 0

AxisOffset(diff, pc) ==
    IF diff > 0 THEN pc + (IF Abs(diff) > pc THEN pc ELSE 0)
    ELSE IF diff < 0 THEN -1 * pc - (IF Abs(diff) > pc THEN pc ELSE 0)
    ELSE 0

Press(pos) == [action |-> "press", x |-> pos.x, y |-> pos.y]
MoveTo(x, y) == [action |-> "moveTo", x |-> x, y |-> y]
Release == [action |-> "release", x |-> 0, y |-> 0]

(* One iteration of `for (const key of keys)`: the actions and lastPos it    *)
(* leaves, given the key's position kp and the cell size pc.                 *)
LoopBodyNoContinue(key, first, kp, pc, acts, last) ==
    LET pressed == IF key = first THEN Append(acts, Press(kp)) ELSE acts
        from == IF key = first THEN kp ELSE last
    IN [actions |-> Append(pressed,
                           MoveTo(AxisOffset(kp.x - from.x, pc) + from.x,
                                  AxisOffset(kp.y - from.y, pc) + from.y)),
        lastPos |-> kp]

LoopBody(key, first, kp, pc, acts, last) ==
    IF key = first
      THEN [actions |-> Append(acts, Press(kp)), lastPos |-> kp]
      ELSE [actions |-> Append(acts,
                               MoveTo(AxisOffset(kp.x - last.x, pc) + last.x,
                                      AxisOffset(kp.y - last.y, pc) + last.y)),
            lastPos |-> kp]

G_Iterate ==
    /\ gPc = "loop"
    /\ gi <= Len(patternKeys)
    /\ LET ks == KeysAsNumbers(patternKeys)
           kp == getPatternKeyPosition(ks[gi], initPos, piece)
           body == LoopBody(ks[gi], ks[1], kp, piece, actions, lastPos)
       IN /\ keyPos' = kp
          /\ actions' = body.actions
          /\ lastPos' = body.lastPos
          /\ gi' = gi + 1
    /\ UNCHANGED <<gPc, patternKeys, initPos, piece>>
    /\ UNCHANGED <<calls, outcome, thrown, fastVars, execVars, valVars>>

(* actions.push({action: 'release'}); return actions *)
G_Release ==
    /\ gPc = "loop"
    /\ gi > Len(patternKeys)
    /\ actions' = Append(actions, Release)
    /\ gPc' = "done"
    /\ UNCHANGED <<gi, lastPos, keyPos, patternKeys, initPos, piece>>
    /\ UNCHANGED <<calls, outcome, thrown, fastVars, execVars, valVars>>

(* The sequences of at most n elements of S in which none occurs twice. *)
RECURSIVE DistinctSeqsUpTo(_, _)
DistinctSeqsUpTo(S, n) ==
    IF n = 0 THEN {<<>>}
    ELSE LET shorter == DistinctSeqsUpTo(S, n - 1) IN
         shorter \cup
           UNION {{Append(q, c) : c \in S \ {q[i] : i \in DOMAIN q}} : q \in shorter}

(* Whole patterns, longer than MaxPatternLen. *)
LongPatterns ==
    { <<"1", "2", "3", "4", "5", "6", "7", "8", "9">>,
      <<"9", "5", "1", "3", "7", "8", "2", "4", "6">>,
      <<"7", "4", "1", "5", "9", "6", "3">> }

(* Patterns the validator lets through, and the one-digit ones. *)
Patterns == (DistinctSeqsUpTo(Digits19, MaxPatternLen) \ {<<>>}) \cup LongPatterns

Origins == {[x |-> 0, y |-> 0], [x |-> 100, y |-> 100], [x |-> -7, y |-> 12]}
Pieces == (0..MaxPiece) \cup {30}

UndefinedPos == [x |-> 0, y |-> 0]

----------------------------------------------------------------------------
(* Strategy executors: passwordUnlock, fingerprintUnlock, patternUnlock      *)

MaxPasswordLen == 4

(* The characters the passwords of the model are made of. *)
PasswordChars == {"a", " ", "\t"}

(* Validated passwords: at least four characters, blanks allowed. *)
PasswordKeys == {k \in SeqsUpTo(PasswordChars, MaxPasswordLen) : Len(k) >= 4}

(* Validated patterns passed to patternUnlock. *)
PatternUnlockKeys ==
    { <<"1", "2">>, <<"1", "3", "9">>, <<" ", "7", "5", "3", "2">> }

(* The keys each executor is called with. *)
ExecKeys(st) ==
    CASE st = "passwordUnlock" -> PasswordKeys
      [] st = "patternUnlock" -> PatternUnlockKeys
      [] OTHER -> PinKeys

Strategies ==
    {"pinUnlock", "pinUnlockWithKeyEvent", "passwordUnlock", "patternUnlock",
     "fingerprintUnlock"}

(* `${key}`.replace(/\s/gi, '%s'): every whitespace character becomes the    *)
(* two characters %s.                                                        *)
RECURSIVE encodePasswordRuns(_)
encodePasswordRuns(key) ==
    IF key = <<>> THEN <<>>
    ELSE IF Head(key) \in Whitespace
      THEN <<"%", "s">> \o encodePasswordRuns(TrimStart(Tail(key)))
      ELSE <<Head(key)>> \o encodePasswordRuns(Tail(key))

RECURSIVE encodePassword(_)
encodePassword(key) ==
    IF key = <<>> THEN <<>>
    ELSE (IF Head(key) \in Whitespace THEN <<"%", "s">> ELSE <<Head(key)>>)
           \o encodePassword(Tail(key))

(* An error the executor creates itself (throw new Error(...)). *)
LocalError == [kind |-> "local", at |-> 0]

(* The executor returns: its promise resolves. *)
ExecReturn ==
    /\ stack' = <<>>
    /\ exPc' = "done"
    /\ Settle(NoError)

(* passwordUnlock: await adb.dismissKeyguard() *)
PW_DismissKeyguard ==
    /\ outcome = "running" /\ stack # <<>> /\ Top(stack) = "passwordUnlock"
    /\ exPc = "dismissKeyguard"
    /\ \E ok \in BOOLEAN :
         LET log == Append(calls, Call("dismissKeyguard", <<>>, ok, "")) IN
         IF ok
           THEN /\ calls' = log
                /\ exPc' = "inputText"
                /\ UNCHANGED <<outcome, thrown, stack, keys, els, pins, idx, waitRuns>>
           ELSE ExecFail(log)
    /\ UNCHANGED <<unlockKey, apiLevel, strategy, location, size, fastVars, valVars, geoVars>>

(* passwordUnlock: const key = this.encodePassword(unlockKey);               *)
(* await adb.shell(['input', 'text', key]); await sleep(...)                 *)
PW_InputText ==
    /\ outcome = "running" /\ stack # <<>> /\ Top(stack) = "passwordUnlock"
    /\ exPc = "inputText"
    /\ \E ok \in BOOLEAN :
         LET log == Append(calls, Call("shell",
                       <<"input", "text", encodePassword(unlockKey)>>, ok, "")) IN
         IF ok
           THEN /\ calls' = log
                /\ exPc' = "inputEnter"
                /\ UNCHANGED <<outcome, thrown, stack, keys, els, pins, idx, waitRuns>>
           ELSE ExecFail(log)
    /\ UNCHANGED <<unlockKey, apiLevel, strategy, location, size, fastVars, valVars, geoVars>>

(* passwordUnlock: await adb.shell(['input', 'keyevent',                     *)
(*   String(KEYCODE_NUMPAD_ENTER)]); await waitForUnlock(adb)                *)
PW_InputEnter ==
    /\ outcome = "running" /\ stack # <<>> /\ Top(stack) = "passwordUnlock"
    /\ exPc = "inputEnter"
    /\ \E ok \in BOOLEAN :
         LET log == Append(calls, Call("shell",
                       <<"input", "keyevent", ToString(KEYCODE_NUMPAD_ENTER)>>, ok, "")) IN
         IF ok
           THEN /\ calls' = log
                /\ EnterWait
                /\ UNCHANGED <<outcome, thrown, stack, keys, els, pins, idx>>
           ELSE ExecFail(log)
    /\ UNCHANGED <<unlockKey, apiLevel, strategy, location, size, fastVars, valVars, geoVars>>

(* if ((await adb.getApiLevel()) < 23) throw ...: the levels that pass.      *)
FingerprintSupportedFrom21(level) == level >= 21

FingerprintSupported(level) == ~(level < 23)

(* fingerprintUnlock: if ((await adb.getApiLevel()) < 23) throw new Error()  *)
F_GetApiLevel ==
    /\ outcome = "running" /\ stack # <<>> /\ Top(stack) = "fingerprintUnlock"
    /\ exPc = "dismissKeyguard"
    /\ \E ok \in BOOLEAN :
         LET log == Append(calls, Call("getApiLevel", <<>>, ok,
                                       IF ok THEN ToString(apiLevel) ELSE "")) IN
         IF ok
           THEN /\ calls' = log
                /\ IF FingerprintSupported(apiLevel)
                     THEN /\ exPc' = "fingerprint"
                          /\ UNCHANGED <<outcome, thrown>>
                     ELSE /\ exPc' = "done"
                          /\ outcome' = "threw"
                          /\ thrown' = LocalError
                /\ UNCHANGED <<stack, keys, els, pins, idx, waitRuns>>
           ELSE ExecFail(log)
    /\ UNCHANGED <<unlockKey, apiLevel, strategy, location, size, fastVars, valVars, geoVars>>

(* fingerprintUnlock: await adb.fingerprint(String(capabilities.unlockKey)); *)
(* await sleep(UNLOCK_WAIT_TIME)                                             *)
F_Fingerprint ==
    /\ outcome = "running" /\ stack # <<>> /\ Top(stack) = "fingerprintUnlock"
    /\ exPc = "fingerprint"
    /\ \E ok \in BOOLEAN :
         LET log == Append(calls, Call("fingerprint", <<unlockKey>>, ok, "")) IN
         IF ok
           THEN /\ calls' = log
                /\ ExecReturn
                /\ UNCHANGED <<keys, els, pins, idx, waitRuns>>
           ELSE ExecFail(log)
    /\ UNCHANGED <<unlockKey, apiLevel, strategy, location, size, fastVars, valVars, geoVars>>

(* getPatternActions as one call: the loop over all keys, then the release.  *)
RECURSIVE PatternLoop(_, _, _, _, _, _)
PatternLoop(ks, i, init, pc, acts, last) ==
    IF i > Len(ks) THEN acts
    ELSE LET body == LoopBody(ks[i], ks[1], getPatternKeyPosition(ks[i], init, pc),
                              pc, acts, last)
         IN PatternLoop(ks, i + 1, init, pc, body.actions, body.lastPos)

getPatternActions(ks, init, pc) ==
    Append(PatternLoop(KeysAsNumbers(ks), 1, init, pc, <<>>, UndefinedPos), Release)

(* `com.android.${apiLevel >= 21 ? 'systemui' : 'keyguard'}:id/lockPatternView` *)
LockPatternViewId(level) ==
    IF level >= 21 THEN "com.android.systemui:id/lockPatternView"
                   ELSE "com.android.keyguard:id/lockPatternView"

(* Widths driver.getSize may report for the pattern view: those whose third, *)
(* the cell size, is a whole number.                                         *)
Widths == {3, 90}

NoSize == [width |-> 0, height |-> 0]

(* patternUnlock: await adb.dismissKeyguard(); const keys = stringKeyToArr() *)
T_DismissKeyguard ==
    /\ outcome = "running" /\ stack # <<>> /\ Top(stack) = "patternUnlock"
    /\ exPc = "dismissKeyguard"
    /\ \E ok \in BOOLEAN :
         LET log == Append(calls, Call("dismissKeyguard", <<>>, ok, "")) IN
         IF ok
           THEN /\ calls' = log
                /\ keys' = stringKeyToArr(unlockKey)
                /\ exPc' = "getApiLevel"
                /\ UNCHANGED <<outcome, thrown, stack, els, pins, idx, waitRuns>>
           ELSE ExecFail(log)
    /\ UNCHANGED <<unlockKey, apiLevel, strategy, location, size, fastVars, valVars, geoVars>>

(* patternUnlock: const apiLevel = await adb.getApiLevel() *)
T_GetApiLevel ==
    /\ outcome = "running" /\ stack # <<>> /\ Top(stack) = "patternUnlock"
    /\ exPc = "getApiLevel"
    /\ \E ok \in BOOLEAN :
         LET log == Append(calls, Call("getApiLevel", <<>>, ok,
                                       IF ok THEN ToString(apiLevel) ELSE "")) IN
         IF ok
           THEN /\ calls' = log
                /\ exPc' = "findView"
                /\ UNCHANGED <<outcome, thrown, stack, keys, els, pins, idx, waitRuns>>
           ELSE ExecFail(log)
    /\ UNCHANGED <<unlockKey, apiLevel, strategy, location, size, fastVars, valVars, geoVars>>

(* patternUnlock: const el = await driver.findElOrEls('id', ..., false):     *)
(* an element, or none (null).                                               *)
T_FindView ==
    /\ outcome = "running" /\ stack # <<>> /\ Top(stack) = "patternUnlock"
    /\ exPc = "findView"
    /\ \/ \E found \in {<<>>, <<Element("lockPatternView")>>} :
            /\ calls' = Append(calls, Call("findElOrEls",
                                 <<LockPatternViewId(apiLevel), "false">>, TRUE, found))
            /\ els' = found
            /\ exPc' = "getLocation"
            /\ UNCHANGED <<outcome, thrown, stack, keys, pins, idx, waitRuns>>
       \/ ExecFail(Append(calls, Call("findElOrEls",
                            <<LockPatternViewId(apiLevel), "false">>, FALSE, <<>>)))
    /\ UNCHANGED <<unlockKey, apiLevel, strategy, location, size, fastVars, valVars, geoVars>>

(* patternUnlock: const initPos = await driver.getLocation(unwrapElement(el)) *)
T_GetLocation ==
    /\ outcome = "running" /\ stack # <<>> /\ Top(stack) = "patternUnlock"
    /\ exPc = "getLocation"
    /\ LET el == IF els = <<>> THEN UndefinedEl ELSE els[1] IN
       \/ \E loc \in Origins :
            /\ calls' = Append(calls, Call("getLocation", <<unwrapElement(el)>>, TRUE, loc))
            /\ location' = loc
            /\ exPc' = "getSize"
            /\ UNCHANGED <<outcome, thrown, stack, keys, els, pins, idx, waitRuns>>
       \/ /\ ExecFail(Append(calls, Call("getLocation", <<unwrapElement(el)>>,
                                         FALSE, UndefinedPos)))
          /\ UNCHANGED location
    /\ UNCHANGED <<unlockKey, apiLevel, strategy, size, fastVars, valVars, geoVars>>

(* patternUnlock: const size = await driver.getSize(unwrapElement(el)) *)
T_GetSize ==
    /\ outcome = "running" /\ stack # <<>> /\ Top(stack) = "patternUnlock"
    /\ exPc = "getSize"
    /\ LET el == IF els = <<>> THEN UndefinedEl ELSE els[1] IN
       \/ \E w \in Widths :
            LET sz == [width |-> w, height |-> w] IN
            /\ calls' = Append(calls, Call("getSize", <<unwrapElement(el)>>, TRUE, sz))
            /\ size' = sz
            /\ exPc' = "performTouch"
            /\ UNCHANGED <<outcome, thrown, stack, keys, els, pins, idx, waitRuns>>
       \/ /\ ExecFail(Append(calls, Call("getSize", <<unwrapElement(el)>>, FALSE, NoSize)))
          /\ UNCHANGED size
    /\ UNCHANGED <<unlockKey, apiLevel, strategy, location, fastVars, valVars, geoVars>>

(* patternUnlock: const actions = getPatternActions(keys, initPos,           *)
(*   size.width / 3); await driver.performTouch(actions); await sleep(...)   *)
T_PerformTouch ==
    /\ outcome = "running" /\ stack # <<>> /\ Top(stack) = "patternUnlock"
    /\ exPc = "performTouch"
    /\ \E ok \in BOOLEAN :
         LET log == Append(calls, Call("performTouch",
                       <<getPatternActions(keys, location, size.width \div 3)>>, ok, "")) IN
         IF ok
           THEN /\ calls' = log
                /\ ExecReturn
                /\ UNCHANGED <<keys, els, pins, idx, waitRuns>>
           ELSE ExecFail(log)
    /\ UNCHANGED <<unlockKey, apiLevel, strategy, location, size, fastVars, valVars, geoVars>>

----------------------------------------------------------------------------
(* Specifications: each runs one entry point; the variables of the others   *)
(* stay as they are.                                                        *)

FastIdle ==
    /\ opts = [credential |-> "", credentialType |-> ""]
    /\ fuPc = "idle"
    /\ wasLockEnabled = FALSE
    /\ pendingErr = NoError

ExecIdle ==
    /\ unlockKey = <<>>
    /\ apiLevel = 0
    /\ strategy = "none"
    /\ stack = <<>>
    /\ exPc = "idle"
    /\ keys = <<>>
    /\ els = <<>>
    /\ pins = <<>>
    /\ idx = 0
    /\ waitRuns = 0
    /\ location = UndefinedPos
    /\ size = NoSize

ValIdle ==
    /\ caps = [unlockType |-> Undefined, unlockKey |-> Undefined]
    /\ valOutcome = Returned(Undefined)

GeoIdle ==
    /\ patternKeys = <<>>
    /\ initPos = UndefinedPos
    /\ piece = 0
    /\ gPc = "idle"
    /\ gi = 0
    /\ actions = <<>>
    /\ lastPos = UndefinedPos
    /\ keyPos = UndefinedPos

NoCalls ==
    /\ calls = <<>>
    /\ outcome = "running"
    /\ thrown = NoError

(* One call of fastUnlock. *)
InitFast ==
    /\ NoCalls /\ ExecIdle /\ ValIdle /\ GeoIdle
    /\ opts \in [credential : Credentials, credentialType : CredentialTypes]
    /\ fuPc = "isLockEnabled"
    /\ wasLockEnabled = FALSE
    /\ pendingErr = NoError

NextFast ==
    \/ FU_IsLockEnabled
    \/ FU_ClearLockCredential
    \/ FU_CycleWakeUp
    \/ FU_DismissKeyguard
    \/ FU_SetLockCredential

SpecFast == InitFast /\ [][NextFast]_vars

(* One call of a strategy executor with validated capabilities on a device  *)
(* of some API level.  An executor's first await is named after the call    *)
(* most of them start with, dismissKeyguard.                                 *)
InitExec ==
    /\ NoCalls /\ FastIdle /\ ValIdle /\ GeoIdle
    /\ strategy \in Strategies
    /\ unlockKey \in ExecKeys(strategy)
    /\ apiLevel \in ApiLevels
    /\ stack = <<strategy>>
    /\ exPc = "dismissKeyguard"
    /\ keys = <<>>
    /\ els = <<>>
    /\ pins = <<>>
    /\ idx = 0
    /\ waitRuns = 0
    /\ location = UndefinedPos
    /\ size = NoSize

NextExec ==
    \/ P_DismissKeyguard
    \/ P_GetApiLevel
    \/ P_FindEls
    \/ P_GetAttribute
    \/ P_Click
    \/ P_FindKey
    \/ P_ClickKey
    \/ K_DismissKeyguard
    \/ K_Shell
    \/ W_IsScreenLocked
    \/ W_Keyevent
    \/ PW_DismissKeyguard
    \/ PW_InputText
    \/ PW_InputEnter
    \/ F_GetApiLevel
    \/ F_Fingerprint
    \/ T_DismissKeyguard
    \/ T_GetApiLevel
    \/ T_FindView
    \/ T_GetLocation
    \/ T_GetSize
    \/ T_PerformTouch

SpecExec == InitExec /\ [][NextExec]_vars

(* One call of validateUnlockCapabilities. *)
InitValidate ==
    /\ NoCalls /\ FastIdle /\ ExecIdle /\ GeoIdle
    /\ caps \in [unlockType : UnlockTypes, unlockKey : UnlockKeys]
    /\ valOutcome = Pending

NextValidate == Validate

SpecValidate == InitValidate /\ [][NextValidate]_vars

(* One call of getPatternActions. *)
InitPattern ==
    /\ NoCalls /\ FastIdle /\ ExecIdle /\ ValIdle
    /\ patternKeys \in Patterns
    /\ initPos \in Origins
    /\ piece \in Pieces
    /\ gPc = "loop"
    /\ gi = 1
    /\ actions = <<>>
    /\ lastPos = UndefinedPos
    /\ keyPos = UndefinedPos

NextPattern ==
    \/ G_Iterate
    \/ G_Release

SpecPattern == InitPattern /\ [][NextPattern]_vars

----------------------------------------------------------------------------
(* Properties                                                               *)

(* Positions in the log of the calls of `fn` that resolved / rejected.      *)
Resolved(fn) == {i \in DOMAIN calls : calls[i].fn = fn /\ calls[i].ok}
Rejected(fn) == {i \in DOMAIN calls : calls[i].fn = fn /\ ~calls[i].ok}
Made(fn) == {i \in DOMAIN calls : calls[i].fn = fn}

LockReportedEnabled ==
    \E i \in Resolved("isLockEnabled") : calls[i].ret = "true"

(* C1: in fastUnlock, when isLockEnabled returned true and dismissKeyguard  *)
(* fails, setLockCredential(credentialType, credential) is invoked after    *)
(* the failed dismissKeyguard and before fastUnlock reports the failure:    *)
(* once fastUnlock has settled, the log holds that call after the failure.  *)
C1_RestoreAfterFailedDismiss ==
    \A j \in Rejected("dismissKeyguard") :
        (LockReportedEnabled /\ outcome # "running") =>
            \E k \in Made("setLockCredential") :
                /\ k > j
                /\ calls[k].args = <<opts.credentialType, opts.credential>>

C1_Witness ==
    /\ LockReportedEnabled
    /\ Rejected("dismissKeyguard") # {}
    /\ Made("setLockCredential") # {}
    /\ outcome = "threw"

(* C2: on every exit path of fastUnlock, once clearLockCredential has been  *)
(* invoked and has succeeded, setLockCredential is invoked before           *)
(* fastUnlock returns or fails.                                             *)
C2_ReleaseOnEveryExit ==
    \A i \in Resolved("clearLockCredential") :
        outcome # "running" => \E k \in Made("setLockCredential") : k > i

(* C3: whenever dismissKeyguard fails, fastUnlock fails with that very      *)
(* error, whether the restore step setLockCredential succeeds or fails.     *)
C3_OriginalErrorReraised ==
    \A j \in Rejected("dismissKeyguard") :
        outcome # "running" => (outcome = "threw" /\ thrown = CallError(j))

(* The digits of a key, in order, and the key event code of each.           *)
IsDigit(c) == c \in Digits09
DigitsOf(key) == SelectSeq(key, IsDigit)
ExpectedCodes(key) ==
    [i \in 1..Len(DigitsOf(key)) |-> ToString(ParseInt(DigitsOf(key)[i]) + 7)]

(* The codes of the digit key events sent so far, in the order sent.        *)
IsShell(c) == c.fn = "shell"
SentCodes == LET sh == SelectSeq(calls, IsShell) IN
             [i \in 1..Len(sh) |-> sh[i].args[3]]

IsPrefix(p, q) == Len(p) <= Len(q) /\ SubSeq(q, 1, Len(p)) = p

(* The keypad lookup of the API >= 21 path resolved to no element.          *)
EmptyKeypadLookup ==
    \E i \in Resolved("findElOrEls") :
        calls[i].args[1] = "digit_text" /\ calls[i].ret = <<>>

(* C4: in pinUnlock with API level >= 21, when the keypad lookup returns an *)
(* empty result, no getAttribute and no click call is made, the digit key   *)
(* events are sent one per key digit in key order (all of them in a run     *)
(* that completes), and waitForUnlock runs once for the whole attempt.      *)
C4_KeycodePathOnEmptyLookup ==
    (strategy = "pinUnlock" /\ EmptyKeypadLookup) =>
        /\ apiLevel >= 21
        /\ Made("getAttribute") = {} /\ Made("click") = {}
        /\ IsPrefix(SentCodes, ExpectedCodes(unlockKey))
        /\ waitRuns <= 1
        /\ Cardinality(Made("isScreenLocked")) <= 1
        /\ outcome = "returned" =>
             /\ SentCodes = ExpectedCodes(unlockKey)
             /\ waitRuns = 1
             /\ Cardinality(Made("isScreenLocked")) = 1

C4_Witness ==
    /\ strategy = "pinUnlock" /\ EmptyKeypadLookup
    /\ outcome = "returned"
    /\ Len(SentCodes) >= 2
    /\ waitRuns = 1

(* C5: the PIN -> PIN-keycode fallback is one-shot and triggered only by    *)
(* absent elements.  In a run of pinUnlock: pinUnlockWithKeyEvent (whose    *)
(* first call is dismissKeyguard, the only one after pinUnlock's own) is    *)
(* entered at most once, and only right after an element lookup that        *)
(* resolved to no element; a rejected click is the last call of the run and *)
(* its error is the one pinUnlock fails with; and once pinUnlockWithKeyEvent*)
(* is entered there is no element lookup, getAttribute, click or            *)
(* getApiLevel call any more.                                               *)
UiOrPinCalls == {"findElOrEls", "getAttribute", "click", "getApiLevel"}

C5_FallbackOneShot ==
    /\ Cardinality({s \in DOMAIN stack : stack[s] = "pinUnlockWithKeyEvent"}) <= 1
    /\ \A s \in DOMAIN stack :
          stack[s] = "pinUnlockWithKeyEvent" => \A t \in DOMAIN stack : t <= s
    /\ strategy = "pinUnlock" =>
         /\ Cardinality(Made("dismissKeyguard")) <= 2
         /\ \A p \in Made("dismissKeyguard") :
              p > 1 =>
                /\ calls[p - 1].fn = "findElOrEls"
                /\ calls[p - 1].ok
                /\ calls[p - 1].ret = <<>>
                /\ \A q \in DOMAIN calls :
                     q > p => calls[q].fn \notin UiOrPinCalls
         /\ \A q \in Made("shell") :
              \E p \in Made("dismissKeyguard") : 1 < p /\ p < q
         /\ \A c \in Rejected("click") :
              /\ c = Len(calls)
              /\ outcome = "threw" /\ thrown = CallError(c)
    /\ strategy = "pinUnlockWithKeyEvent" =>
         \A q \in DOMAIN calls : calls[q].fn \notin UiOrPinCalls

(* A run of pinUnlock on API < 21 that clicked a digit, then fell back. *)
C5_Witness ==
    /\ strategy = "pinUnlock"
    /\ Resolved("click") # {}
    /\ Made("shell") # {}
    /\ outcome = "returned"

(* The key without the whitespace at its ends. *)
TrimmedKey(k) ==
    LET solid == {i \in DOMAIN k : k[i] \notin Whitespace} IN
    IF solid = {} THEN <<>>
    ELSE SubSeq(k, CHOOSE i \in solid : \A j \in solid : i <= j,
                   CHOOSE i \in solid : \A j \in solid : j <= i)

Validated == valOutcome.status # "pending"
Accepted == valOutcome.status = "returned"

ValidPatternKey(v) ==
    /\ v.kind = "string"
    /\ LET t == TrimmedKey(v.val) IN
       /\ Len(t) >= 2 /\ Len(t) <= 9
       /\ \A i \in DOMAIN t : t[i] \in Digits19
       /\ \A i, j \in DOMAIN t : i # j => t[i] # t[j]

(* C6: for unlock type 'pattern', validateUnlockCapabilities accepts a key  *)
(* exactly when the whitespace-trimmed key consists of 2 to 9 characters,   *)
(* each a digit 1..9, with no digit occurring twice at any distance.        *)
C6_PatternKeyGate ==
    (Validated /\ caps.unlockType = Str("pattern")) =>
        (Accepted <=> ValidPatternKey(caps.unlockKey))

C6_Witness ==
    /\ caps.unlockType = Str("pattern")
    /\ Accepted
    /\ Len(caps.unlockKey.val) = 11

(* C7: for unlock type 'password', validateUnlockCapabilities accepts       *)
(* exactly when the key is a string of length >= 4, every character         *)
(* counted, whitespace included; a shorter or an absent key fails.          *)
C7_PasswordLengthGate ==
    (Validated /\ caps.unlockType = Str("password")) =>
        (Accepted <=> (caps.unlockKey.kind = "string" /\ Len(caps.unlockKey.val) >= 4))

ValidDigitKey(v) ==
    /\ v.kind = "string"
    /\ LET t == TrimmedKey(v.val) IN
       /\ Len(t) >= 1
       /\ \A i \in DOMAIN t : t[i] \in Digits09

(* C8: validateUnlockCapabilities fails when the type is missing, not a     *)
(* string or empty, and for every type outside {pin, pinWithKeyEvent,       *)
(* password, pattern, fingerprint}; for pin, pinWithKeyEvent and            *)
(* fingerprint it accepts exactly when the whitespace-trimmed key is a      *)
(* non-empty string of digits 0..9; what it returns on acceptance is the    *)
(* capabilities it was given.                                               *)
C8_TypeGate ==
    Validated =>
        LET type == caps.unlockType IN
        /\ (type.kind # "string" \/ type.val = "") => ~Accepted
        /\ (type.kind = "string"
              /\ type.val \notin {"pin", "pinWithKeyEvent", "password",
                                  "pattern", "fingerprint"}) => ~Accepted
        /\ (type.kind = "string"
              /\ type.val \in {"pin", "pinWithKeyEvent", "fingerprint"}) =>
             (Accepted <=> ValidDigitKey(caps.unlockKey))
        /\ Accepted => valOutcome.value = caps

C8_Witness ==
    /\ caps.unlockType = Str("fingerprint")
    /\ Accepted
    /\ Len(caps.unlockKey.val) = MaxKeyLen
    /\ caps.unlockKey.val[1] = " "
    /\ valOutcome.value = caps

(* C9: for a pattern of N digits (1 <= N <= 9, digits 1..9, none repeated), *)
(* getPatternActions returns exactly N+1 actions: the first is the only     *)
(* 'press', the last the only 'release', the N-1 between them are 'moveTo', *)
(* one pushed per subsequent digit as the loop reaches it.                  *)
C9_GestureShape ==
    LET n == Len(patternKeys) IN
    /\ gPc = "loop" =>
         /\ Len(actions) = gi - 1
         /\ \A i \in DOMAIN actions :
              actions[i].action = (IF i = 1 THEN "press" ELSE "moveTo")
    /\ gPc = "done" =>
         /\ Len(actions) = n + 1
         /\ \A i \in DOMAIN actions :
              actions[i].action =
                (IF i = 1 THEN "press" ELSE IF i = n + 1 THEN "release" ELSE "moveTo")

C9_Witness ==
    /\ gPc = "done"
    /\ Len(patternKeys) = 9
    /\ Len(actions) = 10

(* The digit the last iteration of getPatternActions computed keyPos for,   *)
(* with origin {x: 100, y: 100} and cell size 30.                           *)
PositionedAt100By30(digit) ==
    /\ initPos = [x |-> 100, y |-> 100]
    /\ piece = 30
    /\ gi > 1
    /\ patternKeys[gi - 1] = digit

(* C10 as stated: with origin {x:100, y:100} and cell size 30,              *)
(* getPatternKeyPosition returns {85,85} for digit 1, {115,115} for digit 5 *)
(* and {145,145} for digit 9.                                               *)
C10_PositionsAsStated ==
    /\ PositionedAt100By30("1") => keyPos = [x |-> 85, y |-> 85]
    /\ PositionedAt100By30("5") => keyPos = [x |-> 115, y |-> 115]
    /\ PositionedAt100By30("9") => keyPos = [x |-> 145, y |-> 145]

(* C10, amended: with origin {x:100, y:100} and cell size 30,               *)
(* getPatternKeyPosition returns {115,115} for digit 1, {145,145} for       *)
(* digit 5 and {175,175} for digit 9: the centres of the cells.             *)
C10_CellCentres ==
    /\ PositionedAt100By30("1") => keyPos = [x |-> 115, y |-> 115]
    /\ PositionedAt100By30("5") => keyPos = [x |-> 145, y |-> 145]
    /\ PositionedAt100By30("9") => keyPos = [x |-> 175, y |-> 175]

C10_Witness ==
    /\ PositionedAt100By30("9")
    /\ keyPos = [x |-> 175, y |-> 175]
    /\ patternKeys = <<"1", "5", "9">>
    /\ actions[1] = Press([x |-> 115, y |-> 115])

(* The number a digit character stands for. *)
DigitValue(c) == CHOOSE d \in 0..9 : ToString(d) = c

(* Column and row (1..3) of a digit in the row-major 3x3 grid. *)
ColumnOf(d) == ((d - 1) % 3) + 1
RowOf(d) == ((d - 1) \div 3) + 1

(* C11: for every digit d in 1..9, every integer origin and every even      *)
(* integer cell size, getPatternKeyPosition returns the centre of the cell  *)
(* in column ((d-1) mod 3)+1 and row ceil(d/3) of the grid whose top-left   *)
(* corner is the origin: x = origin.x + column*cell - cell/2, and y = *)
(* origin.y + row*cell - cell/2.                                            *)
C11_CellCentreOfDigit ==
    (gi > 1 /\ piece % 2 = 0) =>
        LET d == DigitValue(patternKeys[gi - 1]) IN
        /\ keyPos.x = initPos.x + ColumnOf(d) * piece - piece \div 2
        /\ keyPos.y = initPos.y + RowOf(d) * piece - piece \div 2

(* Digit 9, the bottom-right cell, with a negative origin coordinate. *)
C11_Witness ==
    /\ gi > 1 /\ piece = 2
    /\ patternKeys[gi - 1] = "9"
    /\ initPos = [x |-> -7, y |-> 12]
    /\ keyPos = [x |-> -2, y |-> 17]

(* C12: in getPatternActions with an integer cell size, for consecutive     *)
(* digits a then b, the moveTo emitted for b is offset from the key         *)
(* position of a, on each axis independently, by 0 when they share the      *)
(* column (row), by one cell size towards b when the columns (rows) are     *)
(* adjacent, and by two cell sizes towards b when they are two apart.       *)
C12_MoveOffsets ==
    \A i \in DOMAIN actions :
        (i >= 2 /\ actions[i].action = "moveTo") =>
            LET a == DigitValue(patternKeys[i - 1])
                b == DigitValue(patternKeys[i])
                from == getPatternKeyPosition(a, initPos, piece)
            IN
            /\ actions[i].x - from.x = (ColumnOf(b) - ColumnOf(a)) * piece
            /\ actions[i].y - from.y = (RowOf(b) - RowOf(a)) * piece

(* 1 -> 3 -> 2: a skip-over move of two cells, then an adjacent move back. *)
C12_Witness ==
    /\ patternKeys = <<"1", "3", "2">>
    /\ piece = 30
    /\ Len(actions) >= 3
    /\ actions[2].x - actions[1].x = 60
    /\ actions[3].x - actions[2].x = -30
    /\ actions[2].y = actions[1].y

(* C20: for every integer cell size, every integer origin and every pattern *)
(* without repeated digits, the coordinates of each moveTo emitted by       *)
(* getPatternActions are getPatternKeyPosition of the digit the moveTo is   *)
(* for: every move lands on the centre of the next cell.                    *)
C20_MovesLandOnKeyPosition ==
    \A i \in DOMAIN actions :
        actions[i].action = "moveTo" =>
            LET target == getPatternKeyPosition(DigitValue(patternKeys[i]), initPos, piece)
            IN actions[i].x = target.x /\ actions[i].y = target.y

(* An odd cell size (the centre is rounded) and a diagonal skip-over move. *)
C20_Witness ==
    /\ gPc = "done"
    /\ piece = 1
    /\ patternKeys = <<"1", "9", "8">>
    /\ actions[2].x = actions[1].x + 2
    /\ actions[2].y = actions[1].y + 2

(* The functions called so far, in call order. *)
CallNames == [i \in DOMAIN calls |-> calls[i].fn]

LockReportedDisabled ==
    \E i \in Resolved("isLockEnabled") : calls[i].ret = "false"

(* C15: in fastUnlock, when isLockEnabled returns false the only            *)
(* state-changing device call made is dismissKeyguard: clearLockCredential, *)
(* cycleWakeUp and setLockCredential are never invoked, whether             *)
(* dismissKeyguard succeeds or fails.  When isLockEnabled returns true and  *)
(* no call fails, the calls occur exactly once each in the order            *)
(* clearLockCredential, cycleWakeUp, dismissKeyguard, setLockCredential.    *)
C15_CallSequence ==
    /\ LockReportedDisabled =>
         /\ IsPrefix(CallNames, <<"isLockEnabled", "dismissKeyguard">>)
         /\ outcome # "running" => Len(calls) = 2
    /\ (LockReportedEnabled /\ outcome = "returned") =>
         CallNames = <<"isLockEnabled", "clearLockCredential", "cycleWakeUp",
                       "dismissKeyguard", "setLockCredential">>

(* No lock enabled and dismissKeyguard rejected: fastUnlock has failed      *)
(* after these two calls alone.                                             *)
C15_Witness ==
    /\ LockReportedDisabled
    /\ Rejected("dismissKeyguard") # {}
    /\ outcome = "threw"
    /\ Len(calls) = 2

(* The last element of a non-empty set of call positions. *)
LastOf(S) == CHOOSE p \in S : \A q \in S : q <= p

(* C13: waitForUnlock does not loop.  In every run it queries               *)
(* isScreenLocked once (waitForUnlock is entered at most once per unlock    *)
(* attempt, and the query is its first call); it sends the confirm key      *)
(* event, code 66, at most once, right after a query that reported the      *)
(* screen locked and after no other query; a query that reported the screen *)
(* unlocked ends the wait with no key event; and the confirm key event is   *)
(* the last call of the run: once it has resolved the executor has          *)
(* returned, so the lock state is never queried again.                      *)
C13_WaitIsOneShot ==
    /\ waitRuns <= 1
    /\ Cardinality(Made("isScreenLocked")) <= waitRuns
    /\ (waitRuns = 1 /\ exPc # "isScreenLocked") =>
          Cardinality(Made("isScreenLocked")) = 1
    /\ Cardinality(Made("keyevent")) <= 1
    /\ \A p \in Made("keyevent") :
          /\ calls[p].args = <<"66">>
          /\ p > 1
          /\ calls[p - 1].fn = "isScreenLocked"
          /\ calls[p - 1].ok /\ calls[p - 1].ret = "true"
          /\ p = Len(calls)
          /\ outcome # "running"
          /\ calls[p].ok => outcome = "returned"
    /\ \A p \in Resolved("isScreenLocked") :
          /\ calls[p].ret = "true" =>
               \/ p = Len(calls) /\ exPc = "keyevent" /\ outcome = "running"
               \/ p + 1 = Len(calls) /\ calls[p + 1].fn = "keyevent"
          /\ calls[p].ret = "false" =>
               /\ p = Len(calls)
               /\ outcome = "returned"

(* The screen was reported locked, the confirm key event was sent and       *)
(* resolved, and the executor has returned.                                 *)
C13_Witness ==
    /\ \E p \in Resolved("isScreenLocked") : calls[p].ret = "true"
    /\ Resolved("keyevent") # {}
    /\ outcome = "returned"

(* C14: fingerprintUnlock fails whenever the API level is below 23, and     *)
(* then no fingerprint call is issued.  For API level >= 23 (once           *)
(* getApiLevel has reported it) it issues one fingerprint call carrying the *)
(* key, String(unlockKey), and nothing else: no dismissKeyguard, no lock    *)
(* state query, no key event.                                               *)
C14_FingerprintGate ==
    strategy = "fingerprintUnlock" =>
      /\ \A i \in DOMAIN calls : calls[i].fn \in {"getApiLevel", "fingerprint"}
      /\ Cardinality(Made("getApiLevel")) <= 1
      /\ apiLevel < 23 =>
           /\ Made("fingerprint") = {}
           /\ outcome # "returned"
           /\ Resolved("getApiLevel") # {} =>
                outcome = "threw" /\ thrown = LocalError
      /\ apiLevel >= 23 =>
           /\ Cardinality(Made("fingerprint")) <= 1
           /\ \A p \in Made("fingerprint") :
                /\ calls[p].args = <<unlockKey>>
                /\ p = 2 /\ calls[1].fn = "getApiLevel" /\ calls[1].ok
           /\ (Resolved("getApiLevel") # {} /\ outcome # "running") =>
                Cardinality(Made("fingerprint")) = 1
           /\ outcome = "returned" => Resolved("fingerprint") # {}

(* An API level below 23 was reported and fingerprintUnlock has failed with *)
(* its own error.                                                           *)
C14_Witness ==
    /\ strategy = "fingerprintUnlock"
    /\ apiLevel < 23
    /\ Resolved("getApiLevel") # {}
    /\ outcome = "threw" /\ thrown = LocalError
    /\ Len(calls) = 1

(* pinUnlockWithKeyEvent has been entered, directly or as the fallback of   *)
(* pinUnlock (whose second dismissKeyguard is its first call).              *)
KeyEventPathEntered ==
    \/ strategy = "pinUnlockWithKeyEvent"
    \/ strategy = "pinUnlock" /\ Cardinality(Made("dismissKeyguard")) = 2

DigitCodes == {ToString(c) : c \in 7..16}

(* C16: pinUnlockWithKeyEvent, for a key of N digits, sends N digit key     *)
(* events in key order, the i-th with code (i-th digit + 7), every code in  *)
(* 7..16; each is sent after its dismissKeyguard has resolved and before    *)
(* waitForUnlock begins (before any lock state query or confirm key event), *)
(* and when waitForUnlock begins all N have been sent.                      *)
C16_DigitKeyEvents ==
    (strategy \in {"pinUnlock", "pinUnlockWithKeyEvent"}) =>
      /\ ~KeyEventPathEntered => Made("shell") = {}
      /\ KeyEventPathEntered =>
           LET start == LastOf(Made("dismissKeyguard")) IN
           /\ \A p \in Made("shell") :
                /\ calls[p].args[1] = "input" /\ calls[p].args[2] = "keyevent"
                /\ calls[p].args[3] \in DigitCodes
                /\ start < p /\ calls[start].ok
                /\ \A q \in Made("isScreenLocked") \cup Made("keyevent") : p < q
           /\ \A i \in 1..Len(SentCodes) :
                /\ i <= Len(DigitsOf(unlockKey))
                /\ SentCodes[i] = ToString(DigitValue(DigitsOf(unlockKey)[i]) + 7)
           /\ waitRuns >= 1 => Len(SentCodes) = Len(DigitsOf(unlockKey))

(* A direct run of pinUnlockWithKeyEvent that sent both ends of the code    *)
(* range, 7 for '0' and 16 for '9', and has returned.                       *)
C16_Witness ==
    /\ strategy = "pinUnlockWithKeyEvent"
    /\ outcome = "returned"
    /\ \E i, j \in 1..Len(SentCodes) : SentCodes[i] = "7" /\ SentCodes[j] = "16"

RECURSIVE Concat(_)
Concat(ss) == IF ss = <<>> THEN <<>> ELSE Head(ss) \o Concat(Tail(ss))

(* Every whitespace character replaced by %s. *)
EachWhitespaceEncoded(key) ==
    Concat([i \in DOMAIN key |->
              IF key[i] \in Whitespace THEN <<"%", "s">> ELSE <<key[i]>>])

(* Every maximal run of whitespace characters replaced by one %s. *)
EachRunEncoded(key) ==
    Concat([i \in DOMAIN key |->
              IF key[i] \notin Whitespace THEN <<key[i]>>
              ELSE IF i > 1 /\ key[i - 1] \in Whitespace THEN <<>>
              ELSE <<"%", "s">>])

(* The texts passwordUnlock has passed to 'input text'. *)
TextsSent ==
    {calls[p].args[3] : p \in {q \in Made("shell") : calls[q].args[2] = "text"}}

(* C17 as stated: encodePassword turns each maximal run of whitespace       *)
(* characters of the key into exactly one %s and keeps every other          *)
(* character, in order.                                                     *)
C17_RunsCollapsed ==
    strategy = "passwordUnlock" =>
      \A t \in TextsSent : t = EachRunEncoded(unlockKey)

(* C17, amended: encodePassword turns every whitespace character of the key *)
(* into one %s, so a run of k whitespace characters becomes k times %s, and *)
(* keeps every other character, in order; passwordUnlock passes that text   *)
(* to 'input text'.                                                         *)
C17_EachWhitespaceEncoded ==
    strategy = "passwordUnlock" =>
      /\ \A t \in TextsSent : t = EachWhitespaceEncoded(unlockKey)
      /\ outcome = "returned" => TextsSent # {}

(* A password with two adjacent whitespace characters has been typed. *)
C17_Witness ==
    /\ strategy = "passwordUnlock"
    /\ \E i \in 1..(Len(unlockKey) - 1) :
         unlockKey[i] \in Whitespace /\ unlockKey[i + 1] \in Whitespace
    /\ \E p \in Resolved("shell") : calls[p].args[2] = "text"
    /\ outcome = "returned"

(* C18: in every strategy executor, waitForUnlock included, a rejected      *)
(* device or UI call is the last call of the run and the executor fails     *)
(* with that call's error; an executor that has returned had no rejected    *)
(* call.                                                                    *)
C18_FirstErrorPropagates ==
    /\ \A i \in DOMAIN calls :
         ~calls[i].ok =>
           /\ i = Len(calls)
           /\ outcome = "threw"
           /\ thrown = CallError(i)
    /\ outcome = "returned" => \A i \in DOMAIN calls : calls[i].ok
    /\ (outcome = "threw" /\ thrown.kind = "call") =>
         thrown.at = Len(calls) /\ ~calls[Len(calls)].ok

(* passwordUnlock whose confirm key event inside waitForUnlock was rejected. *)
C18_Witness ==
    /\ strategy = "passwordUnlock"
    /\ Rejected("keyevent") # {}
    /\ outcome = "threw"
    /\ thrown = CallError(Len(calls))

(* C19: in every run of pinUnlock that completes without error each digit   *)
(* of the key is entered once: the keypad clicks and the digit key events   *)
(* together number the key's digits, and when pinUnlockWithKeyEvent is      *)
(* entered as the fallback no click has been performed before.              *)
C19_EachDigitEnteredOnce ==
    strategy = "pinUnlock" =>
      /\ outcome = "returned" =>
           Cardinality(Made("click")) + Len(SentCodes) = Len(DigitsOf(unlockKey))
      /\ Cardinality(Made("dismissKeyguard")) = 2 =>
           \A c \in Made("click") : c > LastOf(Made("dismissKeyguard"))

====
